---- MODULE Spec2Model ----
(***************************************************************************)
(* The in-memory node store of src/api/file-operations.ts: the module-wide *)
(* Map DATA from node id to INode, and the operations createFile,          *)
(* createDirectory, renameNode, deleteNode and resetFileSystem, with the   *)
(* reads readINode and getAllNodes as operators.                           *)
(*                                                                         *)
(* A JavaScript string is a sequence of one-character strings, so that     *)
(* `${fileName}${fileExtension}` is a real concatenation.  A Map is the    *)
(* sequence of its [key, value] entries in insertion order.                *)
(***************************************************************************)
EXTENDS Integers, Sequences, FiniteSets, TLC

VARIABLES
  DATA,       \* the module-level Map of file-operations.ts
  last,       \* the last call that settled: its arguments, result and table before
  nCalls,     \* the number of calls made so far
  tasks,      \* the async calls suspended at an await
  nodeCache   \* the module-level Map of the viewer

vars == <<DATA, last, nCalls, tasks, nodeCache>>

\* ------------------------------------------------------------------ bounds
\* Number of store calls made in one behaviour.
MaxCalls == 3

\* Depth of nested deleteNode frames the engine allows before RangeError.
MaxStack == 6

\* Number of async calls that may be suspended at an await at one time.
MaxTasks == 2

\* ----------------------------------------------------------------- strings
s_root == <<"r","o","o","t">>
s_src == <<"s","r","c">>
s_index == <<"i","n","d","e","x">>
s_index_tsx == <<"i","n","d","e","x",".","t","s","x">>
s_components == <<"c","o","m","p","o","n","e","n","t","s">>
s_button_tsx == <<"b","u","t","t","o","n",".","t","s","x">>
s_types == <<"t","y","p","e","s">>
s_file_types_tsx == <<"f","i","l","e","-","t","y","p","e","s",".","t","s","x">>
s_other_types_tsx == <<"o","t","h","e","r","-","t","y","p","e","s",".","t","s","x">>
s_lib == <<"l","i","b">>
s_main_tsx == <<"m","a","i","n",".","t","s","x">>
s_tsx == <<".","t","s","x">>
s_txt == <<".","t","x","t">>
s_empty == <<>>
s_ton == <<"t","o","n">>
s_TYPES == <<"T","Y","P","E","S">>
s_Button_TSX == <<"B","u","t","t","o","n",".","T","S","X">>
s_slash == <<"/">>

\* An argument the caller left out (the parameter's default applies).
Undefined == <<"undefined">>

\* ------------------------------------------------------------------- types
File(id, name) == [id |-> id, type |-> "file", name |-> name]

Directory(id, name, children) ==
  [id |-> id, type |-> "directory", name |-> name, children |-> children]

\* What Map.get yields for a key that is not there.
NoNode == [type |-> "undefined"]

\* --------------------------------------------------------------------- Map
MapKeys(m) == {m[i].key : i \in DOMAIN m}

MapHas(m, k) == \E i \in DOMAIN m : m[i].key = k

MapGet(m, k) ==
  IF MapHas(m, k)
  THEN m[CHOOSE i \in DOMAIN m : m[i].key = k].value
  ELSE NoNode

\* Map.set: an existing key keeps its place, a new key goes last.
MapSet(m, k, v) ==
  IF MapHas(m, k)
  THEN [i \in DOMAIN m |-> IF m[i].key = k THEN [key |-> k, value |-> v] ELSE m[i]]
  ELSE Append(m, [key |-> k, value |-> v])

MapDelete(m, k) == SelectSeq(m, LAMBDA e : e.key # k)

MapClear(m) == <<>>

\* -------------------------------------------------------------- seed data
\* The literal the module-level DATA is constructed from.
InitialDATA ==
  << [key |-> s_root,
      value |-> Directory(s_root, s_src, <<s_index_tsx, s_components, s_types>>)],
     [key |-> s_index_tsx, value |-> File(s_index_tsx, s_index_tsx)],
     [key |-> s_components,
      value |-> Directory(s_components, s_components, <<s_button_tsx>>)],
     [key |-> s_button_tsx, value |-> File(s_button_tsx, s_button_tsx)],
     [key |-> s_types,
      value |-> Directory(s_types, s_types, <<s_file_types_tsx, s_other_types_tsx>>)],
     [key |-> s_file_types_tsx, value |-> File(s_file_types_tsx, s_file_types_tsx)],
     [key |-> s_other_types_tsx, value |-> File(s_other_types_tsx, s_other_types_tsx)] >>


\* The literal resetFileSystem restores from.
initialData ==
  << [key |-> s_root,
      value |-> Directory(s_root, s_src, <<s_index_tsx, s_components, s_types>>)],
     [key |-> s_index_tsx, value |-> File(s_index_tsx, s_index_tsx)],
     [key |-> s_components,
      value |-> Directory(s_components, s_components, <<s_button_tsx>>)],
     [key |-> s_button_tsx, value |-> File(s_button_tsx, s_button_tsx)],
     [key |-> s_types,
      value |-> Directory(s_types, s_types, <<s_file_types_tsx, s_other_types_tsx>>)],
     [key |-> s_file_types_tsx, value |-> File(s_file_types_tsx, s_file_types_tsx)],
     [key |-> s_other_types_tsx, value |-> File(s_other_types_tsx, s_other_types_tsx)] >>

\* ------------------------------------------------------------------- reads
readINode(m, id) ==
  LET key == IF id = Undefined THEN s_root ELSE id
  IN  MapGet(m, key)

\* new Map(DATA): the same entries in the same order, in a fresh Map.
getAllNodes(m) == [i \in 1..Len(m) |-> m[i]]

\* How the promise an async function returns settles.
Resolved(v) == [kind |-> "resolved", value |-> v]

Rejected(e) == [kind |-> "rejected", error |-> e]

\* ------------------------------------------------------------------ search
UpperCase ==
  <<"A","B","C","D","E","F","G","H","I","J","K","L","M",
    "N","O","P","Q","R","S","T","U","V","W","X","Y","Z">>

LowerCase ==
  <<"a","b","c","d","e","f","g","h","i","j","k","l","m",
    "n","o","p","q","r","s","t","u","v","w","x","y","z">>

\* String.prototype.toLowerCase on the ASCII strings of the model.
toLowerCase(str) ==
  [i \in 1..Len(str) |->
     IF \E u \in DOMAIN UpperCase : UpperCase[u] = str[i]
     THEN LowerCase[CHOOSE u \in DOMAIN UpperCase : UpperCase[u] = str[i]]
     ELSE str[i]]

\* String.prototype.includes.
includes(str, part) ==
  \E at \in 0..(Len(str) - Len(part)) :
    \A j \in 1..Len(part) : str[at + j] = part[j]

\* { ...node, path }
WithPath(node, path) ==
  IF node.type = "directory"
  THEN [id |-> node.id, type |-> node.type, name |-> node.name,
        children |-> node.children, path |-> path]
  ELSE [id |-> node.id, type |-> node.type, name |-> node.name, path |-> path]

\* searchFiles as it would be if only the node name were lower-cased.
searchFiles_queryAsTyped(m, query) ==
  LET hits == SelectSeq(m, LAMBDA e : includes(toLowerCase(e.value.name), query))
  IN  [data |-> m,
       ret  |-> Resolved([i \in 1..Len(hits) |->
                            WithPath(hits[i].value, hits[i].value.name)])]

searchFiles(m, query) ==
  LET searchQuery == toLowerCase(query)
      hits == SelectSeq(m, LAMBDA e :
                             includes(toLowerCase(e.value.name), searchQuery))
  IN  [data |-> m,
       ret  |-> Resolved([i \in 1..Len(hits) |->
                            WithPath(hits[i].value, hits[i].value.name)])]

\* -------------------------------------------------------------- operations
\* Each operation applied to a table m yields the table after the call and
\* how the promise it returns settles.
\* createFile as it would be if the new id were put first in the children.
createFile_prepends(m, parentId, fileName, fileExtension) ==
  LET ext     == IF fileExtension = Undefined THEN s_txt ELSE fileExtension
      newId   == fileName \o ext
      newFile == File(newId, fileName \o ext)
      m1      == MapSet(m, newId, newFile)
      parent  == MapGet(m1, parentId)
  IN  IF parent # NoNode /\ parent.type = "directory"
      THEN LET linked == [parent EXCEPT !.children = <<newId>> \o @]
           IN  [data |-> MapSet(m1, parentId, linked),
                ret  |-> Resolved(IF parentId = newId THEN linked ELSE newFile)]
      ELSE [data |-> m1, ret |-> Resolved(newFile)]

createFile(m, parentId, fileName, fileExtension) ==
  LET ext     == IF fileExtension = Undefined THEN s_txt ELSE fileExtension
      newId   == fileName \o ext
      newFile == File(newId, fileName \o ext)
      m1      == MapSet(m, newId, newFile)
      parent  == MapGet(m1, parentId)
  IN  IF parent # NoNode /\ parent.type = "directory"
      THEN LET linked == [parent EXCEPT !.children = Append(@, newId)]
           IN  [data |-> MapSet(m1, parentId, linked),
                \* newFile and parent are one object when parentId = newId
                ret  |-> Resolved(IF parentId = newId THEN linked ELSE newFile)]
      ELSE [data |-> m1, ret |-> Resolved(newFile)]

createDirectory(m, parentId, dirName) ==
  LET newId  == dirName
      newDir == Directory(newId, dirName, <<>>)
      m1     == MapSet(m, newId, newDir)
      parent == MapGet(m1, parentId)
  IN  IF parent # NoNode /\ parent.type = "directory"
      THEN LET linked == [parent EXCEPT !.children = Append(@, newId)]
           IN  [data |-> MapSet(m1, parentId, linked),
                \* newDir and parent are one object when parentId = newId
                ret  |-> Resolved(IF parentId = newId THEN linked ELSE newDir)]
      ELSE [data |-> m1, ret |-> Resolved(newDir)]

\* renameNode as it would be if the node were re-keyed under its new name.
renameNode_rekeyed(m, nodeId, newName) ==
  LET node == MapGet(m, nodeId)
  IN  IF node # NoNode
      THEN LET renamed == [node EXCEPT !.name = newName, !.id = newName]
           IN  [data |-> MapSet(MapDelete(m, nodeId), newName, renamed),
                ret  |-> Resolved(renamed)]
      ELSE [data |-> m, ret |-> Resolved(node)]

renameNode(m, nodeId, newName) ==
  LET node == MapGet(m, nodeId)
  IN  IF node # NoNode
      THEN LET renamed == [node EXCEPT !.name = newName]
           IN  [data |-> MapSet(m, nodeId, renamed), ret |-> Resolved(renamed)]
      ELSE [data |-> m, ret |-> Resolved(node)]

\* Maximum call stack size exceeded.
RangeError == Rejected("RangeError")

\* deleteNode as it would be without the lookup: delete the key, return true.
deleteNode_alwaysTrue(m, nodeId, depth) ==
  [data |-> MapDelete(m, nodeId), ret |-> Resolved(TRUE)]

RECURSIVE deleteNode(_, _, _)
RECURSIVE deleteChildren(_, _, _, _)

\* The for loop of deleteNode over node.children, from index i on, run in a
\* frame at the given depth.  A rejected child call ends the loop.
deleteChildren(m, children, i, depth) ==
  IF i > Len(children)
  THEN [data |-> m, ret |-> Resolved(TRUE)]
  ELSE LET r == deleteNode(m, children[i], depth + 1)
       IN  IF r.ret.kind = "rejected"
           THEN r
           ELSE deleteChildren(r.data, children, i + 1, depth)

deleteNode(m, nodeId, depth) ==
  IF depth > MaxStack
  THEN [data |-> m, ret |-> RangeError]
  ELSE LET node == MapGet(m, nodeId)
       IN  IF node = NoNode
           THEN [data |-> m, ret |-> Resolved(FALSE)]
           ELSE IF node.type = "directory" /\ Len(node.children) > 0
                THEN LET r == deleteChildren(m, node.children, 1, depth)
                     IN  IF r.ret.kind = "rejected"
                         THEN r
                         ELSE [data |-> MapDelete(r.data, nodeId),
                               ret  |-> Resolved(TRUE)]
                ELSE [data |-> MapDelete(m, nodeId), ret |-> Resolved(TRUE)]

RECURSIVE restore(_, _, _)

\* The loop of resetFileSystem over initialData, from index i on.
restore(m, entries, i) ==
  IF i > Len(entries)
  THEN m
  ELSE LET nodeData == entries[i].value
           node == IF nodeData.type = "directory"
                   THEN Directory(nodeData.id, nodeData.name, nodeData.children)
                   ELSE File(nodeData.id, nodeData.name)
       IN  restore(MapSet(m, entries[i].key, node), entries, i + 1)

\* resetFileSystem as it would be without the DATA.clear() call.
resetFileSystem_noClear(m) ==
  [data |-> restore(m, initialData, 1), ret |-> Resolved(NoNode)]

resetFileSystem(m) ==
  [data |-> restore(MapClear(m), initialData, 1), ret |-> Resolved(NoNode)]

\* ------------------------------------------------------------------ inputs
ParentIds == {s_root, s_components, s_index_tsx, s_lib}

FileNames == {s_index, s_lib}

FileExtensions == {s_tsx, s_empty, Undefined}

DirNames == {s_lib, s_components, s_index_tsx}

NodeIds == {s_root, s_components, s_index_tsx, s_button_tsx, s_lib}

NewNames == {s_main_tsx}

Queries == {s_ton, s_TYPES, s_tsx, s_empty, s_Button_TSX}

MixedCaseIds == {s_button_tsx, s_types}

MixedCaseNames == {s_Button_TSX}

\* ----------------------------------------------------------- state machine
Init ==
  /\ DATA = InitialDATA
  /\ last = [op |-> "none", pre |-> InitialDATA, ret |-> Resolved(NoNode)]
  /\ nCalls = 0
  /\ tasks = <<>>
  /\ nodeCache = <<>>

CreateFile ==
  /\ nCalls < MaxCalls
  /\ \E parentId \in ParentIds, fileName \in FileNames,
        fileExtension \in FileExtensions :
        LET r == createFile(DATA, parentId, fileName, fileExtension)
        IN  /\ DATA' = r.data
            /\ last' = [op |-> "createFile", pre |-> DATA, ret |-> r.ret,
                        parentId |-> parentId, fileName |-> fileName,
                        fileExtension |-> fileExtension]
  /\ nCalls' = nCalls + 1
  /\ UNCHANGED <<tasks, nodeCache>>

CreateDirectory ==
  /\ nCalls < MaxCalls
  /\ \E parentId \in ParentIds, dirName \in DirNames :
        LET r == createDirectory(DATA, parentId, dirName)
        IN  /\ DATA' = r.data
            /\ last' = [op |-> "createDirectory", pre |-> DATA, ret |-> r.ret,
                        parentId |-> parentId, dirName |-> dirName]
  /\ nCalls' = nCalls + 1
  /\ UNCHANGED <<tasks, nodeCache>>

RenameNode ==
  /\ nCalls < MaxCalls
  /\ \E nodeId \in NodeIds, newName \in NewNames :
        LET r == renameNode(DATA, nodeId, newName)
        IN  /\ DATA' = r.data
            /\ last' = [op |-> "renameNode", pre |-> DATA, ret |-> r.ret,
                        nodeId |-> nodeId, newName |-> newName]
  /\ nCalls' = nCalls + 1
  /\ UNCHANGED <<tasks, nodeCache>>

DeleteNode ==
  /\ nCalls < MaxCalls
  /\ \E nodeId \in NodeIds :
        LET r == deleteNode(DATA, nodeId, 1)
        IN  /\ DATA' = r.data
            /\ last' = [op |-> "deleteNode", pre |-> DATA, ret |-> r.ret,
                        nodeId |-> nodeId]
  /\ nCalls' = nCalls + 1
  /\ UNCHANGED <<tasks, nodeCache>>

ResetFileSystem ==
  /\ nCalls < MaxCalls
  /\ LET r == resetFileSystem(DATA)
     IN  /\ DATA' = r.data
         /\ last' = [op |-> "resetFileSystem", pre |-> DATA, ret |-> r.ret]
  /\ nCalls' = nCalls + 1
  /\ UNCHANGED <<tasks, nodeCache>>

Next ==
  \/ CreateFile
  \/ CreateDirectory
  \/ RenameNode
  \/ DeleteNode
  \/ ResetFileSystem

Spec == Init /\ [][Next]_vars

\* A rename to a name with capital letters, and searchFiles.
RenameMixedCase ==
  /\ nCalls < MaxCalls
  /\ \E nodeId \in MixedCaseIds, newName \in MixedCaseNames :
        LET r == renameNode(DATA, nodeId, newName)
        IN  /\ DATA' = r.data
            /\ last' = [op |-> "renameNode", pre |-> DATA, ret |-> r.ret,
                        nodeId |-> nodeId, newName |-> newName]
  /\ nCalls' = nCalls + 1
  /\ UNCHANGED <<tasks, nodeCache>>

SearchFiles ==
  /\ nCalls < MaxCalls
  /\ \E query \in Queries :
        LET r == searchFiles(DATA, query)
        IN  /\ DATA' = r.data
            /\ last' = [op |-> "searchFiles", pre |-> DATA, ret |-> r.ret,
                        query |-> query]
  /\ nCalls' = nCalls + 1
  /\ UNCHANGED <<tasks, nodeCache>>

\* ------------------------------------------------- vocabulary of the claims
IsDirectory(n) == n.type = "directory"

ChildrenOf(m, id) ==
  LET n == MapGet(m, id)
  IN  IF IsDirectory(n) THEN n.children ELSE <<>>

\* How many times id occurs in the sequence s.
Occurrences(s, id) == Cardinality({j \in DOMAIN s : s[j] = id})

\* The keys of the directories of m that list id among their children.
ParentsOf(m, id) == {k \in MapKeys(m) : Occurrences(ChildrenOf(m, k), id) > 0}

RECURSIVE SumOver(_, _, _)
SumOver(m, id, i) ==
  IF i > Len(m)
  THEN 0
  ELSE Occurrences(ChildrenOf(m, m[i].key), id) + SumOver(m, id, i + 1)

\* The number of children entries, over all directories of m, that name id.
Listings(m, id) == SumOver(m, id, 1)

ChildIds(m, S) == UNION {{ChildrenOf(m, k)[j] : j \in DOMAIN ChildrenOf(m, k)} : k \in S}

RECURSIVE Closure(_, _, _)
Closure(m, S, n) ==
  IF n = 0 THEN S ELSE Closure(m, S \cup ChildIds(m, S), n - 1)

\* The ids reachable from id by one or more children links.
Descendants(m, id) == Closure(m, ChildIds(m, {id}), Len(m))

\* ------------------------------------------------------------------ claims
\* C1: no dangling children: every id listed in the children of any
\* directory of the table resolves through readINode.
C1_NoDanglingChildren ==
  \A k \in MapKeys(DATA) :
    \A j \in DOMAIN ChildrenOf(DATA, k) :
      readINode(DATA, ChildrenOf(DATA, k)[j]) # NoNode

\* C2: single parent: every node of the table other than root is listed in
\* the children of exactly one directory, and once there.
C2_SingleParent ==
  \A k \in MapKeys(DATA) \ {s_root} :
    /\ Cardinality(ParentsOf(DATA, k)) = 1
    /\ Listings(DATA, k) = 1

\* C3: acyclic: no node of the table is reachable from itself by following
\* children links one or more times.
C3_Acyclic ==
  \A k \in MapKeys(DATA) : k \notin Descendants(DATA, k)

\* C4: delete cascades fully: after deleteNode(d) returned true for a
\* directory d, neither d nor any former descendant of d is in the table and
\* no former parent of d still lists d.
C4_DeleteCascadesFully ==
  (/\ last.op = "deleteNode"
   /\ last.ret = Resolved(TRUE)
   /\ IsDirectory(MapGet(last.pre, last.nodeId)))
  => /\ readINode(DATA, last.nodeId) = NoNode
     /\ \A x \in Descendants(last.pre, last.nodeId) : readINode(DATA, x) = NoNode
     /\ \A p \in ParentsOf(last.pre, last.nodeId) :
          Occurrences(ChildrenOf(DATA, p), last.nodeId) = 0

\* C5: root is always present: the table always holds a directory under the
\* id "root", and deleteNode("root") is rejected with InvalidArgument and
\* leaves the table unchanged.
C5_RootAlwaysPresent ==
  /\ MapHas(DATA, s_root)
  /\ IsDirectory(MapGet(DATA, s_root))
  /\ (last.op = "deleteNode" /\ last.nodeId = s_root)
       => (last.ret = Rejected("InvalidArgument") /\ DATA = last.pre)

IsCreate == last.op \in {"createFile", "createDirectory"}

\* The id the last create call derived for its node: fileName+fileExtension
\* (".txt" when the extension was left out), or dirName.
AssignedId ==
  IF last.op = "createFile"
  THEN last.fileName \o (IF last.fileExtension = Undefined THEN s_txt
                         ELSE last.fileExtension)
  ELSE last.dirName

\* C6: an id collision is never a silent overwrite: when the id a create call
\* would assign is already a key, the node under that key is not replaced,
\* and the call is rejected with Conflict or returns a node with an id that
\* was unused.
C6_NoSilentOverwrite ==
  (IsCreate /\ MapHas(last.pre, AssignedId))
  => /\ MapGet(DATA, AssignedId) = MapGet(last.pre, AssignedId)
     /\ \/ last.ret = Rejected("Conflict")
        \/ /\ last.ret.kind = "resolved"
           /\ last.ret.value.id \notin MapKeys(last.pre)

\* C7: a create call whose parentId is absent (NotFound) or a file
\* (InvalidArgument) returns that error and leaves the table unchanged.
C7_InvalidParentFailsAtomically ==
  (IsCreate /\ ~IsDirectory(MapGet(last.pre, last.parentId)))
  => /\ last.ret = Rejected(IF MapHas(last.pre, last.parentId)
                            THEN "InvalidArgument" ELSE "NotFound")
     /\ DATA = last.pre

\* C8: create then read round trip: after createFile under an existing
\* directory the returned File is named fileName+fileExtension, readINode of
\* its id yields an equal node, and the parent lists the id exactly once.
C8_CreateReadRoundTrip ==
  (last.op = "createFile" /\ IsDirectory(MapGet(last.pre, last.parentId)))
  => /\ last.ret.kind = "resolved"
     /\ last.ret.value.type = "file"
     /\ last.ret.value.name = AssignedId
     /\ readINode(DATA, last.ret.value.id) = last.ret.value
     /\ Occurrences(ChildrenOf(DATA, last.parentId), last.ret.value.id) = 1

\* C9: rename preserves identity and position: renameNode of an existing
\* node sets its name to newName and changes nothing else: its id, type and
\* children, the keys of the table and their order, every other node and
\* every directory's children are as before.
C9_RenamePreservesIdentity ==
  (last.op = "renameNode" /\ MapHas(last.pre, last.nodeId))
  => LET old == MapGet(last.pre, last.nodeId)
         new == MapGet(DATA, last.nodeId)
     IN  /\ MapHas(DATA, last.nodeId)
         /\ new.name = last.newName
         /\ new.id = old.id
         /\ new.type = old.type
         /\ ChildrenOf(DATA, last.nodeId) = ChildrenOf(last.pre, last.nodeId)
         /\ Len(DATA) = Len(last.pre)
         /\ \A i \in DOMAIN DATA : DATA[i].key = last.pre[i].key
         /\ \A k \in MapKeys(last.pre) \ {last.nodeId} :
              MapGet(DATA, k) = MapGet(last.pre, k)
         /\ \A k \in MapKeys(last.pre) :
              ChildrenOf(DATA, k) = ChildrenOf(last.pre, k)
         /\ last.ret = Resolved(new)

\* A directory that has children and is listed by a parent was renamed, in a
\* table that earlier calls had already changed.
C9_Witness ==
  /\ last.op = "renameNode"
  /\ MapHas(last.pre, last.nodeId)
  /\ MapGet(last.pre, last.nodeId).name # last.newName
  /\ Len(ChildrenOf(last.pre, last.nodeId)) > 0
  /\ ParentsOf(last.pre, last.nodeId) # {}
  /\ last.pre # InitialDATA

\* C10: reset restores the seed: after resetFileSystem, getAllNodes is the
\* seven-node seed tree with the seed names and children order, whatever
\* calls came before, and a second reset gives the same table.
C10_ResetRestoresSeed ==
  last.op = "resetFileSystem"
  => LET all == getAllNodes(DATA)
     IN  /\ Len(all) = 7
         /\ MapKeys(all) = {s_root, s_index_tsx, s_components, s_button_tsx,
                            s_types, s_file_types_tsx, s_other_types_tsx}
         /\ MapGet(all, s_root)
              = Directory(s_root, s_src, <<s_index_tsx, s_components, s_types>>)
         /\ MapGet(all, s_index_tsx) = File(s_index_tsx, s_index_tsx)
         /\ MapGet(all, s_components)
              = Directory(s_components, s_components, <<s_button_tsx>>)
         /\ MapGet(all, s_button_tsx) = File(s_button_tsx, s_button_tsx)
         /\ MapGet(all, s_types)
              = Directory(s_types, s_types, <<s_file_types_tsx, s_other_types_tsx>>)
         /\ MapGet(all, s_file_types_tsx) = File(s_file_types_tsx, s_file_types_tsx)
         /\ MapGet(all, s_other_types_tsx)
              = File(s_other_types_tsx, s_other_types_tsx)
         /\ getAllNodes(resetFileSystem(DATA).data) = all

\* A reset of a table that had gained a key and lost a seed key.
C10_Witness ==
  /\ last.op = "resetFileSystem"
  /\ MapKeys(last.pre) \ MapKeys(InitialDATA) # {}
  /\ MapKeys(InitialDATA) \ MapKeys(last.pre) # {}

\* C13: the type tag is immutable: an id that createFile, createDirectory,
\* renameNode or deleteNode keeps in the table keeps its type tag.
C13_TypeTagImmutable ==
  last.op \in {"createFile", "createDirectory", "renameNode", "deleteNode"}
  => \A k \in MapKeys(last.pre) \cap MapKeys(DATA) :
       MapGet(DATA, k).type = MapGet(last.pre, k).type

\* C14: renameNode of an id that is not in the table reports NotFound and
\* leaves the table unchanged.
C14_RenameMissingFails ==
  (last.op = "renameNode" /\ ~MapHas(last.pre, last.nodeId))
  => /\ last.ret = Rejected("NotFound")
     /\ DATA = last.pre

\* C15: deleteNode of an id that is not in the table returns false and
\* leaves the table unchanged, and deleteNode returns true only for an id
\* that was in the table at the call.
C15_DeleteMissingReturnsFalse ==
  last.op = "deleteNode"
  => /\ ~MapHas(last.pre, last.nodeId)
          => (last.ret = Resolved(FALSE) /\ DATA = last.pre)
     /\ last.ret = Resolved(TRUE) => MapHas(last.pre, last.nodeId)

\* deleteNode was called, in a table that earlier calls had changed, with
\* an id that an earlier call had removed.
C15_Witness ==
  /\ last.op = "deleteNode"
  /\ ~MapHas(last.pre, last.nodeId)
  /\ MapHas(InitialDATA, last.nodeId)
  /\ last.ret = Resolved(FALSE)

\* C16: create appends and touches nothing else: with a directory parent and
\* an id that is not yet a key, the parent's former children are a prefix
\* followed by the new id, the new id is the one key added (at the end), a
\* new directory has no children, and every other node is unchanged.
C16_CreateAppendsOnly ==
  (/\ IsCreate
   /\ IsDirectory(MapGet(last.pre, last.parentId))
   /\ ~MapHas(last.pre, AssignedId))
  => LET before == MapGet(last.pre, last.parentId)
         after  == MapGet(DATA, last.parentId)
         made   == MapGet(DATA, AssignedId)
     IN  /\ IsDirectory(after)
         /\ after.children = Append(before.children, AssignedId)
         /\ after.id = before.id /\ after.name = before.name
         /\ MapKeys(DATA) = MapKeys(last.pre) \cup {AssignedId}
         /\ Len(DATA) = Len(last.pre) + 1
         /\ made = IF last.op = "createDirectory"
                   THEN Directory(AssignedId, last.dirName, <<>>)
                   ELSE File(AssignedId, AssignedId)
         /\ last.ret = Resolved(made)
         /\ \A k \in MapKeys(last.pre) \ {last.parentId} :
              MapGet(DATA, k) = MapGet(last.pre, k)

\* A fresh file was created under a directory that already had children, in
\* a table that earlier calls had changed.
C16_Witness ==
  /\ last.op = "createFile"
  /\ IsDirectory(MapGet(last.pre, last.parentId))
  /\ ~MapHas(last.pre, AssignedId)
  /\ Len(ChildrenOf(last.pre, last.parentId)) > 0
  /\ last.pre # InitialDATA
  /\ MapHas(DATA, AssignedId)

\* C19: delete always terminates: every deleteNode call made in a reachable
\* table completes and returns a boolean.
C19_DeleteTerminates ==
  last.op = "deleteNode"
  => /\ last.ret.kind = "resolved"
     /\ last.ret.value \in BOOLEAN

\* The '/'-joined names from root down to id, for an id that a chain of
\* single parents links to root (<<>> where there is no such chain).
RECURSIVE PathOf(_, _, _)
PathOf(m, id, fuel) ==
  IF id = s_root /\ MapHas(m, s_root)
  THEN MapGet(m, s_root).name
  ELSE IF fuel = 0 \/ ~MapHas(m, id) \/ Cardinality(ParentsOf(m, id)) # 1
       THEN <<>>
       ELSE LET up == PathOf(m, CHOOSE p \in ParentsOf(m, id) : TRUE, fuel - 1)
            IN  IF up = <<>> THEN <<>> ELSE up \o s_slash \o MapGet(m, id).name

FullPath(m, id) == PathOf(m, id, Len(m))

\* C11: search resolves full paths: every result of searchFiles carries the
\* '/'-joined names of its ancestor chain from root down to the node, and
\* on the seed tree search("ton") is exactly button.tsx with the path
\* "src/components/button.tsx".
C11_SearchResolvesFullPaths ==
  last.op = "searchFiles"
  => /\ \A i \in DOMAIN last.ret.value :
          FullPath(DATA, last.ret.value[i].id) # <<>>
          => last.ret.value[i].path = FullPath(DATA, last.ret.value[i].id)
     /\ (last.pre = InitialDATA /\ last.query = s_ton)
          => last.ret.value
               = << WithPath(File(s_button_tsx, s_button_tsx),
                             s_src \o s_slash \o s_components
                               \o s_slash \o s_button_tsx) >>

\* Two characters that are the same letter in either case, or equal.
SameLetter(a, b) ==
  \/ a = b
  \/ \E u \in DOMAIN UpperCase :
        {a, b} = {UpperCase[u], LowerCase[u]}

\* name contains query as a substring, letters compared without case.
ContainsIgnoringCase(name, query) ==
  \E at \in 0..(Len(name) - Len(query)) :
    \A j \in 1..Len(query) : SameLetter(name[at + j], query[j])

\* A search result without its path.
NodeOf(result) ==
  IF result.type = "directory"
  THEN Directory(result.id, result.name, result.children)
  ELSE File(result.id, result.name)

\* C12: search matches exactly the right nodes: the nodes searchFiles
\* returns are the nodes of the table (files and directories, root
\* included) whose name contains the query without regard to case, each
\* once, and the table is not modified.
C12_SearchMatchesExactly ==
  last.op = "searchFiles"
  => LET results  == last.ret.value
         matching == {k \in MapKeys(last.pre) :
                        ContainsIgnoringCase(MapGet(last.pre, k).name, last.query)}
     IN  /\ last.ret.kind = "resolved"
         /\ \A i \in DOMAIN results :
              /\ results[i].id \in matching
              /\ NodeOf(results[i]) = MapGet(last.pre, results[i].id)
         /\ \A k \in matching :
              Cardinality({i \in DOMAIN results : results[i].id = k}) = 1
         /\ Len(results) = Cardinality(matching)
         /\ DATA = last.pre

\* A search with capital letters in the query found a directory and a file
\* in a table where a name had capital letters.
C12_Witness ==
  /\ last.op = "searchFiles"
  /\ last.query = s_TYPES
  /\ \E i \in DOMAIN last.ret.value : last.ret.value[i].type = "directory"
  /\ \E i \in DOMAIN last.ret.value : last.ret.value[i].type = "file"
  /\ \E k \in MapKeys(DATA) : MapGet(DATA, k).name = s_Button_TSX

\* ------------------------------------------------ deleteNode, await by await
\* A deleteNode call suspended in its for loop at `await deleteNode(childId)`:
\* the children array it iterates and the index of the child it awaits.
Frame(nodeId, children, i) == [nodeId |-> nodeId, children |-> children, i |-> i]

RECURSIVE enterDeleteNode(_, _, _, _)

\* A deleteNode(nodeId) call made with the suspended frames of stack below
\* it, run up to the first await that suspends: the calls nest without a
\* pause down the first children, each caller suspending on its callee.
\* settled is how the innermost call settled; the top frame of the stack
\* awaits it, and with an empty stack it is the outcome of the whole call.
enterDeleteNode(m, stack, nodeId, depth) ==
  IF depth > MaxStack
  THEN [data |-> m, stack |-> stack, settled |-> RangeError]
  ELSE LET node == MapGet(m, nodeId)
       IN  IF node = NoNode
           THEN [data |-> m, stack |-> stack, settled |-> Resolved(FALSE)]
           ELSE IF node.type = "directory" /\ Len(node.children) > 0
                THEN enterDeleteNode(m,
                                     Append(stack, Frame(nodeId, node.children, 1)),
                                     node.children[1], depth + 1)
                ELSE [data |-> MapDelete(m, nodeId), stack |-> stack,
                      settled |-> Resolved(TRUE)]

\* The top frame of stack resumes with the outcome of the call it awaited:
\* a rejection throws out of the frame, otherwise the loop goes on to the
\* next child or ends with DATA.delete(nodeId) and return true.
resumeDeleteNode(m, stack, settled) ==
  LET top  == stack[Len(stack)]
      rest == SubSeq(stack, 1, Len(stack) - 1)
  IN  IF settled.kind = "rejected"
      THEN [data |-> m, stack |-> rest, settled |-> settled]
      ELSE IF top.i < Len(top.children)
           THEN enterDeleteNode(m, Append(rest, [top EXCEPT !.i = @ + 1]),
                                top.children[top.i + 1], 2)
           ELSE [data |-> MapDelete(m, top.nodeId), stack |-> rest,
                 settled |-> Resolved(TRUE)]

RemoveAt(seq, i) == SubSeq(seq, 1, i - 1) \o SubSeq(seq, i + 1, Len(seq))

\* The nodes of the table that a cascade from id covers: id and descendants.
Subtree(m, id) ==
  IF MapHas(m, id) THEN ({id} \cup Descendants(m, id)) \cap MapKeys(m) ELSE {}

AsyncNodeIds == {s_root, s_components, s_lib}

AsyncParentIds == {s_components, s_lib}

AsyncFileNames == {s_lib}

AsyncExtensions == {s_tsx}

AsyncDirNames == {s_lib}

\* A suspended deleteNode call.  subtree and createdUnder are history kept
\* for the claims: the nodes the cascade covered at the call, and the ids
\* created since under a directory among them.
DeleteTask(nodeId, stack, settled, pre) ==
  [op |-> "deleteNode", nodeId |-> nodeId, stack |-> stack, settled |-> settled,
   pre |-> pre, subtree |-> Subtree(pre, nodeId), createdUnder |-> {}]

NoteCreated(ts, m, parentId, newId) ==
  [i \in DOMAIN ts |->
     IF ts[i].op = "deleteNode" /\ parentId \in ts[i].subtree
        /\ IsDirectory(MapGet(m, parentId)) /\ parentId # newId
     THEN [ts[i] EXCEPT !.createdUnder = @ \cup {newId}]
     ELSE ts[i]]

CallDeleteNode ==
  /\ nCalls < MaxCalls
  /\ Len(tasks) < MaxTasks
  /\ \E nodeId \in AsyncNodeIds :
        LET r == enterDeleteNode(DATA, <<>>, nodeId, 1)
        IN  /\ DATA' = r.data
            /\ IF r.stack = <<>>
               THEN /\ tasks' = tasks
                    /\ last' = [op |-> "deleteNode", pre |-> DATA,
                                ret |-> r.settled, nodeId |-> nodeId,
                                createdUnder |-> {}]
               ELSE /\ tasks' = Append(tasks,
                                       DeleteTask(nodeId, r.stack, r.settled, DATA))
                    /\ last' = last
  /\ nCalls' = nCalls + 1
  /\ UNCHANGED nodeCache

ResumeDeleteNode ==
  /\ \E t \in DOMAIN tasks :
        /\ tasks[t].op = "deleteNode"
        /\ LET r == resumeDeleteNode(DATA, tasks[t].stack, tasks[t].settled)
           IN  /\ DATA' = r.data
               /\ IF r.stack = <<>>
                  THEN /\ tasks' = RemoveAt(tasks, t)
                       /\ last' = [op |-> "deleteNode", pre |-> tasks[t].pre,
                                   ret |-> r.settled, nodeId |-> tasks[t].nodeId,
                                   createdUnder |-> tasks[t].createdUnder]
                  ELSE /\ tasks' = [tasks EXCEPT ![t].stack = r.stack,
                                                 ![t].settled = r.settled]
                       /\ last' = last
  /\ UNCHANGED <<nCalls, nodeCache>>

CallCreateFile ==
  /\ nCalls < MaxCalls
  /\ \E parentId \in AsyncParentIds, fileName \in AsyncFileNames,
        fileExtension \in AsyncExtensions :
        LET r == createFile(DATA, parentId, fileName, fileExtension)
        IN  /\ DATA' = r.data
            /\ last' = [op |-> "createFile", pre |-> DATA, ret |-> r.ret,
                        parentId |-> parentId, fileName |-> fileName,
                        fileExtension |-> fileExtension]
            /\ tasks' = NoteCreated(tasks, DATA, parentId, r.ret.value.id)
  /\ nCalls' = nCalls + 1
  /\ UNCHANGED nodeCache

CallCreateDirectory ==
  /\ nCalls < MaxCalls
  /\ \E parentId \in AsyncParentIds, dirName \in AsyncDirNames :
        LET r == createDirectory(DATA, parentId, dirName)
        IN  /\ DATA' = r.data
            /\ last' = [op |-> "createDirectory", pre |-> DATA, ret |-> r.ret,
                        parentId |-> parentId, dirName |-> dirName]
            /\ tasks' = NoteCreated(tasks, DATA, parentId, r.ret.value.id)
  /\ nCalls' = nCalls + 1
  /\ UNCHANGED nodeCache

\* getAllNodes called by another caller; cascades records the subtrees of
\* the deleteNode calls suspended at that moment.
CallGetAllNodes ==
  /\ nCalls < MaxCalls
  /\ last' = [op |-> "getAllNodes", pre |-> DATA,
              ret |-> Resolved(getAllNodes(DATA)),
              cascades |-> {tasks[t].subtree : t \in DOMAIN tasks}]
  /\ nCalls' = nCalls + 1
  /\ UNCHANGED <<DATA, tasks, nodeCache>>

NextAsync ==
  \/ CallDeleteNode
  \/ ResumeDeleteNode
  \/ CallCreateFile
  \/ CallCreateDirectory
  \/ CallGetAllNodes

SpecAsync == Init /\ [][NextAsync]_vars

\* The store with its search: creates, renames (also to a name with capital
\* letters), deletes and resets, and searchFiles.
NextSearch ==
  \/ CallCreateFile
  \/ CallCreateDirectory
  \/ RenameNode
  \/ RenameMixedCase
  \/ DeleteNode
  \/ ResetFileSystem
  \/ SearchFiles

SpecSearch == Init /\ [][NextSearch]_vars

\* C17: cascade delete is atomic to concurrent callers: no call made while a
\* deleteNode is suspended observes a table from which some but not all
\* nodes of the subtree being deleted have been removed.
C17_CascadeAtomic ==
  last.op = "getAllNodes"
  => \A subtree \in last.cascades :
       LET present == {k \in subtree : MapHas(last.ret.value, k)}
       IN  present = {} \/ present = subtree

\* C18: no orphan survives a cascade under interleaving: once a deleteNode(d)
\* and the creates made under d or a descendant while it was suspended have
\* all completed, every node created there that is still in the table is
\* reachable from root.
C18_NoOrphanAfterCascade ==
  (last.op = "deleteNode" /\ tasks = <<>>)
  => \A k \in last.createdUnder :
       MapHas(DATA, k) => k \in Descendants(DATA, s_root)

\* ------------------------------------------------------------------ viewer
\* What the viewer holds is a reference to a node object, not a copy.  While
\* the object is the one stored in DATA under its key, the reference shows
\* the store's value (renameNode assigns node.name on that very object);
\* once DATA.delete has dropped the object, the reference keeps the value
\* the object had.  The value NoNode stands for readINode's null.
LiveRef == [live |-> TRUE]

Detached(value) == [live |-> FALSE, value |-> value]

Deref(m, id, ref) == IF ref.live THEN MapGet(m, id) ELSE ref.value

\* The references to objects that a store call removed from m.
Detach(m, removed, id, ref) ==
  IF ref.live /\ id \in removed THEN Detached(MapGet(m, id)) ELSE ref

\* nodeCache.set.  mutated is history kept for the claims: the id was
\* renamed or deleted after the entry was cached.
CacheSet(cache, id, ref) ==
  [k \in DOMAIN cache \cup {id} |->
     IF k = id THEN [ref |-> ref, mutated |-> FALSE] ELSE cache[k]]

ViewerIds == {s_root, s_components, s_index_tsx, s_button_tsx, s_lib}

\* The effect of RenderFileTree up to its await: a cache hit sets the
\* component's fileTree from the cache, a miss calls readINode and suspends.
GetFileTrees ==
  /\ nCalls < MaxCalls
  /\ \E dirId \in ViewerIds :
        IF dirId \in DOMAIN nodeCache
        THEN /\ last' = [op |-> "getFileTrees", pre |-> DATA, dirId |-> dirId,
                         from |-> "cache",
                         mutated |-> nodeCache[dirId].mutated,
                         ret |-> Deref(DATA, dirId, nodeCache[dirId].ref)]
             /\ tasks' = tasks
        ELSE /\ Len(tasks) < MaxTasks
             /\ tasks' = Append(tasks,
                                [op |-> "getFileTrees", dirId |-> dirId,
                                 fileTrees |-> IF readINode(DATA, dirId) # NoNode
                                               THEN LiveRef
                                               ELSE Detached(NoNode)])
             /\ last' = last
  /\ nCalls' = nCalls + 1
  /\ UNCHANGED <<DATA, nodeCache>>

\* The effect after its await: nodeCache.set(dirId, fileTrees) and
\* setFileTree(fileTrees).
GetFileTreesResume ==
  /\ \E t \in DOMAIN tasks :
        /\ tasks[t].op = "getFileTrees"
        /\ nodeCache' = CacheSet(nodeCache, tasks[t].dirId, tasks[t].fileTrees)
        /\ last' = [op |-> "getFileTrees", pre |-> DATA,
                    dirId |-> tasks[t].dirId, from |-> "store",
                    mutated |-> FALSE,
                    ret |-> Deref(DATA, tasks[t].dirId, tasks[t].fileTrees)]
        /\ tasks' = RemoveAt(tasks, t)
  /\ UNCHANGED <<DATA, nCalls>>

\* renameNode while the viewer is mounted: the store does not touch nodeCache.
ViewerRenameNode ==
  /\ nCalls < MaxCalls
  /\ \E nodeId \in NodeIds, newName \in NewNames :
        LET r == renameNode(DATA, nodeId, newName)
        IN  /\ DATA' = r.data
            /\ last' = [op |-> "renameNode", pre |-> DATA, ret |-> r.ret,
                        nodeId |-> nodeId, newName |-> newName]
            /\ nodeCache' =
                 [k \in DOMAIN nodeCache |->
                    [nodeCache[k] EXCEPT
                       !.mutated = @ \/ (k = nodeId /\ MapHas(DATA, nodeId))]]
  /\ nCalls' = nCalls + 1
  /\ UNCHANGED tasks

\* deleteNode while the viewer is mounted: the store does not touch
\* nodeCache; references to the deleted objects keep their last value.
ViewerDeleteNode ==
  /\ nCalls < MaxCalls
  /\ \E nodeId \in NodeIds :
        LET r == deleteNode(DATA, nodeId, 1)
            removed == MapKeys(DATA) \ MapKeys(r.data)
        IN  /\ DATA' = r.data
            /\ last' = [op |-> "deleteNode", pre |-> DATA, ret |-> r.ret,
                        nodeId |-> nodeId]
            /\ nodeCache' =
                 [k \in DOMAIN nodeCache |->
                    [ref |-> Detach(DATA, removed, k, nodeCache[k].ref),
                     mutated |-> nodeCache[k].mutated \/ k \in removed]]
            /\ tasks' =
                 [t \in DOMAIN tasks |->
                    [tasks[t] EXCEPT
                       !.fileTrees = Detach(DATA, removed, tasks[t].dirId, @)]]
  /\ nCalls' = nCalls + 1

NextViewer ==
  \/ GetFileTrees
  \/ GetFileTreesResume
  \/ ViewerRenameNode
  \/ ViewerDeleteNode

SpecViewer == Init /\ [][NextViewer]_vars

\* C20: the viewer cache is invalidated on mutation: after renameNode or
\* deleteNode of an id, nodeCache holds no entry cached for that id before
\* the mutation, and a load of that id takes its value from the store.
C20_CacheInvalidated ==
  /\ \A k \in DOMAIN nodeCache : ~nodeCache[k].mutated
  /\ (last.op = "getFileTrees" /\ last.mutated)
       => (last.from = "store" /\ last.ret = readINode(last.pre, last.dirId))

====
